---- MODULE Spec2Model ----
(***************************************************************************)
(* Model of src/saved_models.ts: the SavedModel metagraph/signature        *)
(* extractor, the signature resolver, and the TFSavedModel handle with the *)
(* process-wide loadedSavedModelPathMap that decides when a backend        *)
(* session is deleted.                                                     *)
(*                                                                         *)
(* JavaScript values are tagged records (field "kind"), so that a string,  *)
(* an array, undefined and an object stay distinguishable.  A string is    *)
(* the sequence of its characters, so that String.replace(/:0$/, '') is    *)
(* computed and not assumed.                                               *)
(***************************************************************************)
EXTENDS Integers, Sequences, FiniteSets, TLC

VARIABLES
    modelMessage,             \* the deserialized saved_model.pb message
    savedModelInfo,           \* the MetaGraph[] a caller holds after extraction
    loadedSavedModelPathMap,  \* jsid -> {path, tags, sessionId}
    nextTFSavedModelId,       \* the module-level id counter
    models,                   \* the TFSavedModel objects constructed so far
    heap,                     \* the SignatureDefEntry objects the models reference
    backend,                  \* the NodeJSKernelBackend: sessions made and deleted
    disposeReturns,           \* per model, how often dispose() returned normally
    lastCall                  \* the last public call, its arguments and what it returned

vars == <<modelMessage, savedModelInfo, loadedSavedModelPathMap,
          nextTFSavedModelId, models, heap, backend, disposeReturns, lastCall>>

----------------------------------------------------------------------------
(* Bounds of the model. *)

MaxModels == 3

MaxMetaGraphs == 2

----------------------------------------------------------------------------
(* JavaScript values. *)

Undefined == [kind |-> "undefined"]

Str(chars) == [kind |-> "string", chars |-> chars]

Arr(elems) == [kind |-> "array", elems |-> elems]

Threw(error) == [kind |-> "throw", error |-> error]

\* The prototype every object literal {} starts with.
ObjectPrototype == [kind |-> "Object.prototype"]

\* Property names every plain object inherits from Object.prototype.
ObjectPrototypeKeys ==
    {"constructor", "toString", "toLocaleString", "valueOf", "hasOwnProperty",
     "isPrototypeOf", "propertyIsEnumerable", "__proto__"}

\* The object literal {}: no own property, prototype Object.prototype. Own
\* properties are kept in insertion order, the order Object.keys reports.
EmptyObject == [kind |-> "object", own |-> <<>>, proto |-> ObjectPrototype]

JsHasOwn(obj, k) == \E i \in 1..Len(obj.own) : obj.own[i][1] = k

JsOwn(obj, k) == obj.own[CHOOSE i \in 1..Len(obj.own) : obj.own[i][1] = k][2]

\* Object.keys(obj)
JsKeys(obj) == [i \in 1..Len(obj.own) |-> obj.own[i][1]]

\* obj[k] : the own property, else what the prototype chain gives, else
\* undefined.
JsGet(obj, k) ==
    IF JsHasOwn(obj, k) THEN JsOwn(obj, k)
    ELSE IF k = "__proto__" THEN obj.proto
    ELSE IF obj.proto.kind = "entry" /\ k \in {"inputs", "outputs"}
         THEN obj.proto[k]
    ELSE IF k \in ObjectPrototypeKeys THEN [kind |-> "builtin", name |-> k]
    ELSE Undefined

\* obj[k] = v : "__proto__" is the accessor inherited from Object.prototype,
\* whose setter replaces the prototype and creates no own property.
JsSet(obj, k, v) ==
    IF k = "__proto__" THEN [obj EXCEPT !.proto = v]
    ELSE IF JsHasOwn(obj, k)
         THEN [obj EXCEPT !.own =
                  [i \in 1..Len(obj.own) |->
                      IF obj.own[i][1] = k THEN <<k, v>> ELSE obj.own[i]]]
    ELSE [obj EXCEPT !.own = Append(obj.own, <<k, v>>)]

\* The set of elements of a sequence.
Range(s) == {s[i] : i \in 1..Len(s)}

----------------------------------------------------------------------------
(* Dtype mapping. *)

\* messages.DataType of ./proto/api_pb, as the key/value pairs Object.keys
\* walks. DT_RESOURCE is a defined code with no JavaScript dtype.
DataType ==
    << <<"DT_INVALID", 0>>, <<"DT_FLOAT", 1>>, <<"DT_INT32", 3>>,
       <<"DT_STRING", 7>>, <<"DT_BOOL", 10>>, <<"DT_RESOURCE", 20>> >>

\* Object.keys(object).find(key => object[key] === value): the first key
\* whose value is the code, undefined when there is none.
getEnumKeyFromValue(object, value) ==
    IF \E i \in 1..Len(object) : object[i][2] = value
    THEN LET i == CHOOSE j \in 1..Len(object) :
                    /\ object[j][2] = value
                    /\ \A l \in 1..(j - 1) : object[l][2] # value
         IN  Str(object[i][1])
    ELSE Undefined

\* The portable dtype of a symbolic dtype name; a throw for the others.
mapTFDtypeToJSDtype(tfDtype) ==
    IF tfDtype = Str("DT_FLOAT") THEN Str("float32")
    ELSE IF tfDtype = Str("DT_INT32") THEN Str("int32")
    ELSE IF tfDtype = Str("DT_BOOL") THEN Str("bool")
    ELSE IF tfDtype = Str("DT_STRING") THEN Str("string")
    ELSE IF tfDtype = Undefined THEN Threw("UnknownDtype")
    ELSE Threw("UnsupportedDtype")

----------------------------------------------------------------------------
(* Signature extractor: getMetaGraphsFromSavedModel. *)

SAVED_MODEL_INIT_OP_KEY == "__saved_model_init_op"

\* The ModelTensorInfo built from one tensor of an inputs map.
inputTensorInfo(inputTensor) ==
    LET dtype == getEnumKeyFromValue(DataType, inputTensor.dtype)
    IN  [kind    |-> "tensorinfo",
         dtype   |-> mapTFDtypeToJSDtype(dtype),
         tfDtype |-> dtype,
         name    |-> Str(inputTensor.name),
         shape   |-> Arr(inputTensor.dimList)]

\* The ModelTensorInfo built from one tensor of an outputs map: name is
\* assigned the tensor shape's dim list, and shape is never assigned.
outputTensorInfo(outputTensor) ==
    LET dtype == getEnumKeyFromValue(DataType, outputTensor.dtype)
    IN  [kind    |-> "tensorinfo",
         dtype   |-> mapTFDtypeToJSDtype(dtype),
         tfDtype |-> dtype,
         name    |-> Arr(outputTensor.dimList),
         shape   |-> Undefined]

\* The while loop over inputsMapKeys, from the i-th key on.
RECURSIVE inputsLoop(_, _, _)
inputsLoop(inputsMapMessage, i, inputs) ==
    IF i > Len(inputsMapMessage) THEN inputs
    ELSE inputsLoop(inputsMapMessage, i + 1,
                    JsSet(inputs, inputsMapMessage[i][1],
                          inputTensorInfo(inputsMapMessage[i][2])))

\* The while loop over outputsMapKeys, from the i-th key on.
RECURSIVE outputsLoop(_, _, _)
outputsLoop(outputsMapMessage, i, outputs) ==
    IF i > Len(outputsMapMessage) THEN outputs
    ELSE outputsLoop(outputsMapMessage, i + 1,
                     JsSet(outputs, outputsMapMessage[i][1],
                           outputTensorInfo(outputsMapMessage[i][2])))

\* {inputs, outputs} for one signature of the map.
signatureDefEntryOf(signatureDefEntry) ==
    [kind    |-> "entry",
     inputs  |-> inputsLoop(signatureDefEntry.inputsMap, 1, EmptyObject),
     outputs |-> outputsLoop(signatureDefEntry.outputsMap, 1, EmptyObject)]

\* The while loop over signatureDefKeys, from the i-th key on.
RECURSIVE signatureDefLoop(_, _, _)
signatureDefLoop(signatureDefMap, i, signatureDef) ==
    IF i > Len(signatureDefMap) THEN signatureDef
    ELSE IF signatureDefMap[i][1] = SAVED_MODEL_INIT_OP_KEY
         THEN signatureDefLoop(signatureDefMap, i + 1, signatureDef)
    ELSE signatureDefLoop(signatureDefMap, i + 1,
                          JsSet(signatureDef, signatureDefMap[i][1],
                                signatureDefEntryOf(signatureDefMap[i][2])))

\* One MetaGraph of the result.
metaGraphOf(metaGraphMessage) ==
    [tags          |-> metaGraphMessage.tags,
     signatureDefs |-> signatureDefLoop(metaGraphMessage.signatureDefMap, 1,
                                        EmptyObject)]

\* The dtype results computed while walking one tensor map.
tensorMapDtypes(tensorMap) ==
    {mapTFDtypeToJSDtype(getEnumKeyFromValue(DataType, tensorMap[i][2].dtype)) :
        i \in 1..Len(tensorMap)}

\* The dtype mapper results computed during the whole walk (the initializer
\* signature is skipped before its tensors are looked at).
dtypesMapped(metaGraphList) ==
    UNION {UNION {tensorMapDtypes(metaGraphList[i].signatureDefMap[j][2].inputsMap)
                  \cup tensorMapDtypes(metaGraphList[i].signatureDefMap[j][2].outputsMap) :
                    j \in {l \in 1..Len(metaGraphList[i].signatureDefMap) :
                             metaGraphList[i].signatureDefMap[l][1]
                                # SAVED_MODEL_INIT_OP_KEY}} :
           i \in 1..Len(metaGraphList)}

\* getMetaGraphsFromSavedModel on the message read from the path: the
\* MetaGraph array, or the throw of the dtype mapper.
getMetaGraphsFromSavedModel(metaGraphList) ==
    IF \E d \in dtypesMapped(metaGraphList) : d.kind = "throw"
    THEN CHOOSE d \in dtypesMapped(metaGraphList) : d.kind = "throw"
    ELSE Arr([i \in 1..Len(metaGraphList) |-> metaGraphOf(metaGraphList[i])])

----------------------------------------------------------------------------
(* Signature resolver: getSignatureDefEntryFromMetaGraphInfo. *)

\* Whether two tag arrays hold the same tags, as sets.
stringArraysHaveSameElements(arrayA, arrayB) == Range(arrayA) = Range(arrayB)

\* The for loop over savedModelInfo, from the i-th metagraph on.
RECURSIVE resolveLoop(_, _, _, _)
resolveLoop(info, i, tags, signature) ==
    IF i > Len(info) THEN Threw("TagsNotFound")
    ELSE IF stringArraysHaveSameElements(tags, info[i].tags)
         THEN IF JsGet(info[i].signatureDefs, signature) = Undefined
              THEN Threw("SignatureNotFound")
              ELSE JsGet(info[i].signatureDefs, signature)
    ELSE resolveLoop(info, i + 1, tags, signature)

getSignatureDefEntryFromMetaGraphInfo(info, tags, signature) ==
    resolveLoop(info.elems, 1, tags, signature)

----------------------------------------------------------------------------
(* The TFSavedModel handle and the backend it talks to. *)

\* The directories that hold a readable saved_model.pb.
SavedModelDirs == {"/m"}

\* readSavedModelProto: the access check, then the deserialized message.
readSavedModelProto(path) ==
    IF path \in SavedModelDirs THEN Arr(modelMessage)
    ELSE Threw("ArtifactNotFound")

\* new TFSavedModel(sessionId, jsid, signature, backend): disposed = false.
TFSavedModel(sessionId, jsid, signature) ==
    [sessionId |-> sessionId, jsid |-> jsid, signature |-> signature,
     disposed |-> FALSE]

\* String.prototype.replace(/:0$/, ''): the string without a ":0" at its
\* very end, the string itself when it does not end so.
replaceOutputIndex(chars) ==
    IF /\ Len(chars) >= 2
       /\ chars[Len(chars) - 1] = ":"
       /\ chars[Len(chars)] = "0"
    THEN SubSeq(chars, 1, Len(chars) - 2)
    ELSE chars

\* results.forEach(info => { info.name = info.name.replace(/:0$/, '') }),
\* from the i-th key on. The infos are the objects the signature holds, so
\* the assignment lands in the signature; a name that is not a string has
\* no replace method and the call throws there, the earlier assignments
\* staying done.
RECURSIVE forEachReplace(_, _, _)
forEachReplace(entries, keys, i) ==
    IF i > Len(keys) THEN [entries |-> entries, threw |-> FALSE]
    ELSE LET info == JsGet(entries, keys[i])
         IN  IF info.name.kind # "string"
             THEN [entries |-> entries, threw |-> TRUE]
             ELSE forEachReplace(
                      JsSet(entries, keys[i],
                            [info EXCEPT !.name =
                                Str(replaceOutputIndex(info.name.chars))]),
                      keys, i + 1)

\* The body shared by the inputs and outputs getters, on the tensor map
\* `entries` of the bound signature: the map after the call and what the
\* getter returns.
getterOn(entries) ==
    IF entries.kind # "object"
    THEN [entries |-> entries, result |-> Threw("TypeError")]
    ELSE LET keys == JsKeys(entries)
             done == forEachReplace(entries, keys, 1)
         IN  [entries |-> done.entries,
              result  |-> IF done.threw THEN Threw("TypeError")
                          ELSE Arr([i \in 1..Len(keys) |->
                                       JsGet(done.entries, keys[i])])]

\* this.signature.inputs / this.signature.outputs of a bound signature: a
\* value that is no SignatureDefEntry has no such property.
entriesOf(signature, field) ==
    IF signature.kind = "entry" THEN signature[field] ELSE Undefined

\* The signature object after a getter has run on its `field` map.
signatureAfter(signature, field) ==
    IF signature.kind = "entry"
    THEN [signature EXCEPT ![field] = getterOn(signature[field]).entries]
    ELSE signature

\* A dispose that forgets to delete its own entry before the scan.
mapDelete_Kept(map, jsid) == map

\* loadedSavedModelPathMap.delete(this.jsid)
mapDelete(map, jsid) == [id \in (DOMAIN map) \ {jsid} |-> map[id]]

\* A dispose whose scan never finds another user of the session.
sessionStillUsed_Never(map, sessionId) == FALSE

\* The for loop of dispose over the remaining keys: whether some entry
\* still carries this sessionId (the loop's early return).
sessionStillUsed(map, sessionId) ==
    \E id \in DOMAIN map : map[id].sessionId = sessionId

\* A dispose that forgets to set the flag.
markDisposed_Forgotten(model) == model

\* this.disposed = true
markDisposed(model) == [model EXCEPT !.disposed = TRUE]

\* backend.deleteSavedModel(sessionId): one more teardown of that session.
deleteSavedModel(b, sessionId) ==
    [b EXCEPT !.deleted[sessionId] = @ + 1]

----------------------------------------------------------------------------
(* The inputs the model draws from. *)

TensorX0 == [dtype |-> 1, name |-> <<"x", ":", "0">>, dimList |-> <<-1, 4>>]

TensorX00 ==
    [dtype |-> 3, name |-> <<"x", ":", "0", ":", "0">>, dimList |-> <<-1>>]

TensorY == [dtype |-> 1, name |-> <<"y">>, dimList |-> <<2>>]

TensorResource == [dtype |-> 20, name |-> <<"r">>, dimList |-> <<>>]

SigPredict ==
    [inputsMap  |-> << <<"x", TensorX0>>, <<"z", TensorX00>> >>,
     outputsMap |-> << <<"y", TensorY>> >>]

SigOther ==
    [inputsMap  |-> << <<"a", TensorY>> >>,
     outputsMap |-> <<>>]

SigResource ==
    [inputsMap  |-> << <<"r", TensorResource>> >>,
     outputsMap |-> <<>>]

\* The signature keys of the generated artifacts, in the order a map lists
\* them.
SigKeys == <<"predict", SAVED_MODEL_INIT_OP_KEY, "constructor", "__proto__">>

SigMsgs == {SigPredict, SigOther}

\* The signature maps: at most two keys; two keys carry different signatures.
SignatureDefMaps ==
    {<<>>}
    \cup {<< <<SigKeys[i], a>> >> : i \in 1..Len(SigKeys), a \in SigMsgs}
    \cup UNION {{<< <<SigKeys[ij[1]], ab[1]>>, <<SigKeys[ij[2]], ab[2]>> >> :
                    ab \in {q \in SigMsgs \X SigMsgs : q[1] # q[2]}} :
                ij \in {p \in (1..Len(SigKeys)) \X (1..Len(SigKeys)) :
                           p[1] < p[2]}}
    \cup {<< <<"predict", SigResource>> >>}

MetaGraphTags == {<<"serve">>, <<"serve", "gpu">>, <<"gpu", "serve">>}

MetaGraphMsgs ==
    {[tags |-> t, signatureDefMap |-> m] :
        t \in MetaGraphTags, m \in SignatureDefMaps}

\* The artifact messages: at most MaxMetaGraphs metagraphs.
Messages ==
    UNION {[1..n -> MetaGraphMsgs] : n \in 0..MaxMetaGraphs}

\* The tag arrays and signature names callers ask for.
RequestTags == MetaGraphTags \cup {<<"train">>}

RequestSignatures ==
    {"predict", "classify", SAVED_MODEL_INIT_OP_KEY, "constructor", "__proto__"}

\* The artifacts on disk while handles are loaded and disposed.
LoadMessages ==
    {<< [tags |-> <<"serve">>,
         signatureDefMap |-> << <<SAVED_MODEL_INIT_OP_KEY, SigOther>>,
                                <<"predict", SigPredict>> >>],
        [tags |-> <<"serve", "gpu">>,
         signatureDefMap |-> << <<"predict", SigOther>> >>] >>,
     << [tags |-> <<"serve">>,
         signatureDefMap |-> << <<"predict", SigOther>> >>] >>}

LoadPaths == SavedModelDirs \cup {"/none"}

LoadTags == {<<"serve">>, <<"gpu", "serve">>, <<"train">>}

LoadSignatures == {"predict", "classify"}

\* The session ids the backend can hand out or be given.
SessionIds == 0..MaxModels

----------------------------------------------------------------------------
(* Initial states. *)

NoCall == [op |-> "none"]

InitHandles ==
    /\ savedModelInfo = Undefined
    /\ loadedSavedModelPathMap = <<>>
    /\ nextTFSavedModelId = 0
    /\ models = <<>>
    /\ heap = <<>>
    /\ backend = [nextSessionId |-> 0,
                  deleted |-> [s \in SessionIds |-> 0]]
    /\ disposeReturns = <<>>
    /\ lastCall = NoCall

Init ==
    /\ modelMessage \in LoadMessages
    /\ InitHandles

InitCatalog ==
    /\ modelMessage \in Messages
    /\ InitHandles

----------------------------------------------------------------------------
(* Extraction and resolution as calls. *)

\* await getMetaGraphsFromSavedModel(path) on a directory that holds the
\* artifact.
Extract ==
    /\ savedModelInfo = Undefined
    /\ savedModelInfo' = getMetaGraphsFromSavedModel(modelMessage)
    /\ lastCall' = [op |-> "getMetaGraphsFromSavedModel",
                    result |-> savedModelInfo']
    /\ UNCHANGED <<modelMessage, loadedSavedModelPathMap, nextTFSavedModelId,
                   models, heap, backend, disposeReturns>>

\* getSignatureDefEntryFromMetaGraphInfo(savedModelInfo, tags, signature)
Resolve(tags, signature) ==
    /\ savedModelInfo.kind = "array"
    /\ lastCall' = [op |-> "getSignatureDefEntryFromMetaGraphInfo",
                    tags |-> tags, signature |-> signature,
                    result |-> getSignatureDefEntryFromMetaGraphInfo(
                                   savedModelInfo, tags, signature)]
    /\ UNCHANGED <<modelMessage, savedModelInfo, loadedSavedModelPathMap,
                   nextTFSavedModelId, models, heap, backend, disposeReturns>>

NextCatalog ==
    \/ Extract
    \/ \E tags \in RequestTags, signature \in RequestSignatures :
          Resolve(tags, signature)

SpecCatalog == InitCatalog /\ [][NextCatalog]_vars

----------------------------------------------------------------------------
(* Loading, the getters and dispose as calls. *)

\* The sessions the entries of the map already hold for this path and these
\* tags (none, or the one all such entries share).
reusableSessions(map, path, tags) ==
    {map[id].sessionId :
        id \in {i \in DOMAIN map :
                  /\ map[i].path = path
                  /\ stringArraysHaveSameElements(map[i].tags, tags)}}

\* What loading would resolve for (path, tags, signature): the throw of the
\* first failing step, else the SignatureDefEntry.
resolvedForLoad(path, tags, signature) ==
    LET message == readSavedModelProto(path)
        info    == IF message.kind = "throw" THEN message
                   ELSE getMetaGraphsFromSavedModel(message.elems)
    IN  IF info.kind = "throw" THEN info
        ELSE getSignatureDefEntryFromMetaGraphInfo(info, tags, signature)

\* Loading one signature of a SavedModel: extract, resolve, reuse the
\* session of an entry with the same path and tags or have the backend make
\* one, construct the TFSavedModel under the next id and enter it in the map.
loadSavedModel(path, tags, signature) ==
    /\ Len(models) < MaxModels
    /\ LET entry  == resolvedForLoad(path, tags, signature)
           reused == reusableSessions(loadedSavedModelPathMap, path, tags)
           sessionId == IF reused = {} THEN backend.nextSessionId
                        ELSE CHOOSE s \in reused : TRUE
           id == nextTFSavedModelId
       IN  IF entry.kind = "throw"
           THEN /\ lastCall' = [op |-> "loadSavedModel", path |-> path,
                                tags |-> tags, signature |-> signature,
                                result |-> entry]
                /\ UNCHANGED <<loadedSavedModelPathMap, nextTFSavedModelId,
                               models, heap, backend, disposeReturns>>
           ELSE /\ backend' = IF reused = {}
                              THEN [backend EXCEPT !.nextSessionId = @ + 1]
                              ELSE backend
                /\ nextTFSavedModelId' = id + 1
                /\ heap' = Append(heap, entry)
                /\ models' = Append(models,
                                    TFSavedModel(sessionId, id, Len(heap) + 1))
                /\ disposeReturns' = Append(disposeReturns, 0)
                /\ loadedSavedModelPathMap' =
                       [i \in (DOMAIN loadedSavedModelPathMap) \cup {id} |->
                           IF i = id
                           THEN [path |-> path, tags |-> tags,
                                 sessionId |-> sessionId]
                           ELSE loadedSavedModelPathMap[i]]
                /\ lastCall' = [op |-> "loadSavedModel", path |-> path,
                                tags |-> tags, signature |-> signature,
                                result |-> Len(models) + 1]
    /\ UNCHANGED <<modelMessage, savedModelInfo>>

\* new TFSavedModel(sessionId, jsid, signature, backend) called directly,
\* on a SignatureDefEntry the caller already holds: nothing is entered in
\* the map and the id counter is not consulted.
Construct(sessionId, jsid, signature) ==
    /\ Len(models) < MaxModels
    /\ signature \in 1..Len(heap)
    /\ models' = Append(models, TFSavedModel(sessionId, jsid, signature))
    /\ disposeReturns' = Append(disposeReturns, 0)
    /\ lastCall' = [op |-> "new TFSavedModel", result |-> Len(models) + 1]
    /\ UNCHANGED <<modelMessage, savedModelInfo, loadedSavedModelPathMap,
                   nextTFSavedModelId, heap, backend>>

\* A getter of model m on `field` ("inputs" or "outputs").
getter(m, field) ==
    LET signature == heap[models[m].signature]
    IN  /\ heap' = [heap EXCEPT ![models[m].signature] =
                       signatureAfter(signature, field)]
        /\ lastCall' = [op |-> field, model |-> m,
                        result |-> getterOn(entriesOf(signature, field)).result]
        /\ UNCHANGED <<modelMessage, savedModelInfo, loadedSavedModelPathMap,
                       nextTFSavedModelId, models, backend, disposeReturns>>

\* model.inputs
inputs(m) == getter(m, "inputs")

\* model.outputs
outputs(m) == getter(m, "outputs")

\* model.dispose()
dispose(m) ==
    IF ~models[m].disposed
    THEN LET map == mapDelete(loadedSavedModelPathMap, models[m].jsid)
         IN  /\ models' = [models EXCEPT ![m] = markDisposed(models[m])]
             /\ loadedSavedModelPathMap' = map
             /\ backend' = IF sessionStillUsed(map, models[m].sessionId)
                           THEN backend
                           ELSE deleteSavedModel(backend, models[m].sessionId)
             /\ disposeReturns' =
                    [disposeReturns EXCEPT ![m] = IF @ < 2 THEN @ + 1 ELSE @]
             /\ lastCall' = [op |-> "dispose", model |-> m,
                             result |-> Undefined]
             /\ UNCHANGED <<modelMessage, savedModelInfo, nextTFSavedModelId,
                            heap>>
    ELSE /\ lastCall' = [op |-> "dispose", model |-> m,
                         result |-> Threw("AlreadyDisposed")]
         /\ UNCHANGED <<modelMessage, savedModelInfo, loadedSavedModelPathMap,
                        nextTFSavedModelId, models, heap, backend,
                        disposeReturns>>

Next ==
    \/ \E path \in LoadPaths, tags \in LoadTags, signature \in LoadSignatures :
          loadSavedModel(path, tags, signature)
    \/ \E m \in DOMAIN models : inputs(m)
    \/ \E m \in DOMAIN models : outputs(m)
    \/ \E m \in DOMAIN models : dispose(m)

Spec == Init /\ [][Next]_vars

\* The same calls, and direct constructions besides.
NextCtor ==
    \/ Next
    \/ \E sessionId \in 0..1, jsid \in 0..MaxModels, signature \in DOMAIN heap :
          Construct(sessionId, jsid, signature)

SpecCtor == Init /\ [][NextCtor]_vars

----------------------------------------------------------------------------
(* Claims about sessions and dispose, under Spec and SpecCtor. *)

\* Whether some entry of the map references the session.
Referenced(s) ==
    \E id \in DOMAIN loadedSavedModelPathMap :
        loadedSavedModelPathMap[id].sessionId = s

\* The models bound to the session.
ModelsOf(s) == {m \in DOMAIN models : models[m].sessionId = s}

\* C1: for every session ever bound to a handle, the backend has been told
\* to delete it if and only if no entry of loadedSavedModelPathMap
\* references it.
C1_TornDownIffUnreferenced ==
    \A m \in DOMAIN models :
        (backend.deleted[models[m].sessionId] > 0)
            <=> ~Referenced(models[m].sessionId)

\* One of two handles sharing a session is disposed and the session is
\* alive, while another session has been torn down.
C1_Witness ==
    \E a, b, c \in DOMAIN models :
        /\ a # b
        /\ models[a].sessionId = models[b].sessionId
        /\ models[a].disposed /\ ~models[b].disposed
        /\ backend.deleted[models[a].sessionId] = 0
        /\ models[c].sessionId # models[a].sessionId
        /\ backend.deleted[models[c].sessionId] = 1

\* C2: two handles with distinct ids that share a session are entered for
\* the same path and tag set; while either of them is not disposed the
\* session has not been deleted, and once every handle of the session is
\* disposed it has been deleted exactly once, whichever went first.
C2_SharedSessionDeletedOnceByLast ==
    \A a, b \in DOMAIN models :
        (a # b /\ models[a].sessionId = models[b].sessionId) =>
            LET s == models[a].sessionId
            IN  /\ models[a].jsid # models[b].jsid
                /\ (~models[a].disposed /\ ~models[b].disposed) =>
                      LET ea == loadedSavedModelPathMap[models[a].jsid]
                          eb == loadedSavedModelPathMap[models[b].jsid]
                      IN  /\ ea.path = eb.path
                          /\ Range(ea.tags) = Range(eb.tags)
                /\ (~models[a].disposed \/ ~models[b].disposed) =>
                      backend.deleted[s] = 0
                /\ (\A m \in ModelsOf(s) : models[m].disposed) =>
                      backend.deleted[s] = 1

\* Exactly two handles share a session; the second-loaded was disposed
\* first, the first-loaded has just been disposed, and the session has been
\* deleted once.
C2_Witness ==
    \E a, b \in DOMAIN models :
        /\ a < b
        /\ ModelsOf(models[a].sessionId) = {a, b}
        /\ lastCall = [op |-> "dispose", model |-> a, result |-> Undefined]
        /\ models[b].disposed
        /\ backend.deleted[models[a].sessionId] = 1

\* C3: dispose() returns normally at most once per handle, a handle on
\* which it has returned is disposed, and a disposed handle stays disposed
\* with no further normal return of dispose(): every later call throws.
C3_DisposedIsTerminal ==
    /\ [](\A m \in DOMAIN models :
             /\ disposeReturns[m] <= 1
             /\ (disposeReturns[m] = 1) <=> models[m].disposed)
    /\ [][\A m \in DOMAIN models :
             models[m].disposed =>
                 /\ models'[m].disposed
                 /\ disposeReturns'[m] = disposeReturns[m]]_vars

\* A second dispose() on a handle has just thrown, after other handles
\* were loaded and disposed.
C3_Witness ==
    \E m, n \in DOMAIN models :
        /\ m < n
        /\ lastCall = [op |-> "dispose", model |-> m,
                       result |-> Threw("AlreadyDisposed")]
        /\ models[m].disposed /\ disposeReturns[m] = 1
        /\ models[n].disposed

\* C5: a dispose() of a handle whose jsid has no entry in the map changes
\* no entry and has the backend delete no session.
C5_UnknownIdReleaseIsNoOp ==
    [][\A m \in DOMAIN models :
          (/\ ~models[m].disposed
           /\ models'[m].disposed
           /\ models[m].jsid \notin DOMAIN loadedSavedModelPathMap)
          => /\ loadedSavedModelPathMap' = loadedSavedModelPathMap
             /\ backend'.deleted = backend.deleted]_vars

----------------------------------------------------------------------------
(* Claims about the getters, under Spec. *)

Getters == {"inputs", "outputs"}

\* The name a tensor is to be surfaced under: without one trailing ":0".
Surfaced(name) ==
    IF /\ name.kind = "string"
       /\ Len(name.chars) >= 2
       /\ SubSeq(name.chars, Len(name.chars) - 1, Len(name.chars)) = <<":", "0">>
    THEN Str(SubSeq(name.chars, 1, Len(name.chars) - 2))
    ELSE name

\* Whether the getter step to lastCall' returned, tensor by tensor in key
\* order, the stored name without its trailing ":0" and a string either way.
GetterSurfacesNames ==
    LET signature == heap[models[lastCall'.model].signature]
        before    == signature[lastCall'.op]
        keys      == JsKeys(before)
    IN  /\ lastCall'.result.kind = "array"
        /\ Len(lastCall'.result.elems) = Len(keys)
        /\ \A i \in 1..Len(keys) :
              /\ lastCall'.result.elems[i].name.kind = "string"
              /\ lastCall'.result.elems[i].name =
                     Surfaced(JsOwn(before, keys[i]).name)

\* C6: every call of inputs or outputs surfaces each tensor of the bound
\* signature under its name without the trailing ":0", and under the name
\* itself when it has no such suffix.
C6_GettersStripOutputIndex ==
    [][lastCall'.op \in Getters => GetterSurfacesNames]_vars

\* The inputs half of C6, which the code satisfies call by call.
InputsGetterStripsOutputIndex ==
    [][lastCall'.op = "inputs" => GetterSurfacesNames]_vars

\* C7: a getter called twice in a row on a handle that is not disposed
\* returns equal sequences.
C7_GettersIdempotent ==
    [][(/\ lastCall.op \in Getters
        /\ lastCall'.op = lastCall.op
        /\ lastCall'.model = lastCall.model
        /\ ~models[lastCall.model].disposed)
       => lastCall'.result = lastCall.result]_vars

\* C10: a call of inputs or outputs leaves every bound SignatureDefEntry as
\* it was.
C10_GettersLeaveSignatureUnchanged ==
    [][lastCall'.op \in Getters => heap' = heap]_vars

----------------------------------------------------------------------------
(* Claims about the extractor and the resolver, under SpecCatalog. *)

\* The positions of the metagraphs whose tags equal the requested ones as
\* sets.
MatchingMetaGraphs(info, tags) ==
    {i \in 1..Len(info) : Range(info[i].tags) = Range(tags)}

\* The reference resolver of the specification: the first metagraph in
\* catalog order with the requested tag set decides; a name that is not one
\* of its signatureDefs keys is SignatureNotFound.
ReferenceResolve(info, tags, signature) ==
    IF MatchingMetaGraphs(info, tags) = {} THEN Threw("TagsNotFound")
    ELSE LET first == CHOOSE i \in MatchingMetaGraphs(info, tags) :
                         \A j \in MatchingMetaGraphs(info, tags) : i <= j
         IN  IF ~JsHasOwn(info[first].signatureDefs, signature)
             THEN Threw("SignatureNotFound")
             ELSE JsOwn(info[first].signatureDefs, signature)

ResolveReturned == lastCall.op = "getSignatureDefEntryFromMetaGraphInfo"

\* C4: every call of getSignatureDefEntryFromMetaGraphInfo returns what the
\* reference resolver returns for the same catalog, tags and signature name:
\* TagsNotFound when no metagraph carries the tag set, SignatureNotFound when
\* the first such metagraph has no such key, that metagraph's entry otherwise.
C4_ResolveAgreesWithReference ==
    ResolveReturned =>
        lastCall.result =
            ReferenceResolve(savedModelInfo.elems, lastCall.tags,
                             lastCall.signature)

\* The part of C4 the code does satisfy: the calls whose signature name is
\* no property name of Object.prototype agree with the reference, the
\* first-match tie-break included.
ResolveAgreesOffPrototype ==
    (ResolveReturned /\ lastCall.signature \notin ObjectPrototypeKeys) =>
        lastCall.result =
            ReferenceResolve(savedModelInfo.elems, lastCall.tags,
                             lastCall.signature)

\* A call decided by the first of two metagraphs with the same tag set.
ResolveTieBreakReached ==
    /\ ResolveReturned
    /\ Cardinality(MatchingMetaGraphs(savedModelInfo.elems, lastCall.tags)) = 2
    /\ lastCall.result.kind = "throw"
    /\ JsHasOwn(savedModelInfo.elems[2].signatureDefs, lastCall.signature)

Extracted == savedModelInfo.kind = "array"

\* The signatures of metagraph i of the message that are not the initializer.
KeptSignatures(i) ==
    {j \in 1..Len(modelMessage[i].signatureDefMap) :
        modelMessage[i].signatureDefMap[j][1] # SAVED_MODEL_INIT_OP_KEY}

\* Whether the TensorInfos of one extracted tensor map carry, key by key,
\* the name and the dim list of the tensor they were built from.
TensorMapCopied(tensorMap, infos) ==
    \A t \in 1..Len(tensorMap) :
        /\ JsHasOwn(infos, tensorMap[t][1])
        /\ JsOwn(infos, tensorMap[t][1]).name = Str(tensorMap[t][2].name)
        /\ JsOwn(infos, tensorMap[t][1]).shape = Arr(tensorMap[t][2].dimList)

\* C8: in every extracted signature, each TensorInfo of the inputs map and
\* of the outputs map has the name of its tensor's own name field and the
\* shape of its tensor's own dim list.
C8_TensorInfoCopiesNameAndShape ==
    Extracted =>
        \A i \in 1..Len(modelMessage) : \A j \in KeptSignatures(i) :
            LET sig   == modelMessage[i].signatureDefMap[j]
                entry == JsGet(savedModelInfo.elems[i].signatureDefs, sig[1])
            IN  /\ entry.kind = "entry"
                /\ TensorMapCopied(sig[2].inputsMap, entry.inputs)
                /\ TensorMapCopied(sig[2].outputsMap, entry.outputs)

\* The inputs half of C8, which the code satisfies.
InputTensorInfoCopiesNameAndShape ==
    Extracted =>
        \A i \in 1..Len(modelMessage) : \A j \in KeptSignatures(i) :
            LET sig   == modelMessage[i].signatureDefMap[j]
                entry == JsGet(savedModelInfo.elems[i].signatureDefs, sig[1])
            IN  /\ entry.kind = "entry"
                /\ TensorMapCopied(sig[2].inputsMap, entry.inputs)

\* C9: the extractor returns one MetaGraph per metagraph of the message, in
\* order, and the keys of its signatureDefs are exactly the keys of that
\* metagraph's signature map without "__saved_model_init_op".
C9_SignatureKeysAreMapKeysMinusInitOp ==
    Extracted =>
        /\ Len(savedModelInfo.elems) = Len(modelMessage)
        /\ \A i \in 1..Len(modelMessage) :
              /\ savedModelInfo.elems[i].tags = modelMessage[i].tags
              /\ Range(JsKeys(savedModelInfo.elems[i].signatureDefs)) =
                    {modelMessage[i].signatureDefMap[j][1] :
                        j \in KeptSignatures(i)}

\* The part of C9 the code does satisfy: the initializer key is never a
\* key of signatureDefs, and every key other than "__proto__" is kept.
SignatureKeysKeptExceptProto ==
    Extracted =>
        /\ Len(savedModelInfo.elems) = Len(modelMessage)
        /\ \A i \in 1..Len(modelMessage) :
              /\ savedModelInfo.elems[i].tags = modelMessage[i].tags
              /\ Range(JsKeys(savedModelInfo.elems[i].signatureDefs)) =
                    {modelMessage[i].signatureDefMap[j][1] :
                        j \in KeptSignatures(i)} \ {"__proto__"}

====
